---- MODULE Spec2Model ----
(***************************************************************************)
(* Model of src/main.py: the HTTP-triggered job aggregation run            *)
(* fetch_and_process_jobs, with its helpers filter_competitors,            *)
(* get_existing_job_ids and write_jobs_to_sheet.                           *)
(*                                                                         *)
(* Python dicts are functions with a set of string keys; Python lists are  *)
(* sequences; company names and blocklist keywords are sequences of        *)
(* one-character strings so that upper() and the `in` substring test are   *)
(* computed, every other string is an opaque TLA+ string.  A run is cut    *)
(* into one action per blocking call to the outside world (the search      *)
(* request, the column read, the bulk insert); the local code that follows *)
(* a call up to the next call belongs to the action of that call.          *)
(***************************************************************************)
EXTENDS Integers, Sequences, FiniteSets, TLC

\* ------------------------------------------------------------ configuration

\* main.py:12 sets 500 and main.py:13 sets 30; both are scaled down here so
\* that the cap is reached, and overshot, within a few pages.
MAX_JOBS_TO_FETCH == 2
RESULTS_PER_PAGE == 1

\* main.py:16-35 has three worksheets with 10, 1 and 1 location filters; the
\* model keeps one worksheet with several filters and one with a single one.
TARGET_LOCATIONS ==
  << [worksheet_name |-> "Europe", filter_list |-> <<"United Kingdom", "Germany">>],
     [worksheet_name |-> "India",  filter_list |-> <<"India">>] >>

COMPETITOR_NAMES == << <<"I", "T", "S">> >>

columns ==
  << "job_id", "Title", "Company Name", "Source URL", "Location of Job",
     "Compensation", "Job Description", "Apply Link" >>

Groups == 1..Len(TARGET_LOCATIONS)
Runs == {1, 2}

\* ------------------------------------------------------------ Python values

None == "<None>"
EmptyDict == [k \in {} |-> k]

Truthy(v) == v # None /\ v # ""

\* dict.get(k, default)
Get(d, k, default) == IF k \in DOMAIN d THEN d[k] ELSE default

LowerLetters ==
  << "a","b","c","d","e","f","g","h","i","j","k","l","m",
     "n","o","p","q","r","s","t","u","v","w","x","y","z" >>
UpperLetters ==
  << "A","B","C","D","E","F","G","H","I","J","K","L","M",
     "N","O","P","Q","R","S","T","U","V","W","X","Y","Z" >>

UpperChar(c) ==
  IF \E i \in DOMAIN LowerLetters : LowerLetters[i] = c
    THEN UpperLetters[CHOOSE i \in DOMAIN LowerLetters : LowerLetters[i] = c]
    ELSE c

\* str.upper()
Upper(s) == [i \in 1..Len(s) |-> UpperChar(s[i])]

\* keyword in company_name
Contains(keyword, s) ==
  \E i \in 0..(Len(s) - Len(keyword)) : SubSeq(s, i + 1, i + Len(keyword)) = keyword

\* ------------------------------------------------------------ the search API

\* Raw entries of jobs_results.  The optional fields are absent, present but
\* empty, or present with a value.
JobA ==
  ("job_id" :> "a") @@ ("title" :> "Cloud Engineer")
  @@ ("company_name" :> <<"A","c","m","e"," ","C","o","r","p">>)
  @@ ("location" :> "Berlin") @@ ("detected_extensions" :> ("salary" :> "90k"))
  @@ ("description" :> "Build things") @@ ("share_link" :> "share-a")
  @@ ("apply_options" :> << ("link" :> "apply-a") >>)

JobB ==
  ("job_id" :> "b") @@ ("title" :> "GCP Architect")
  @@ ("company_name" :> <<"a","b","c","I","T","S","x","y","z">>)
  @@ ("detected_extensions" :> EmptyDict)
  @@ ("description" :> "") @@ ("share_link" :> "share-b")

JobE ==
  ("job_id" :> "") @@ ("title" :> "Data Engineer")
  @@ ("company_name" :> <<"I","t","s"," ","L","t","d">>)
  @@ ("location" :> "") @@ ("apply_options" :> << EmptyDict >>)

JobN ==
  ("title" :> "SRE")
  @@ ("company_name" :> <<"A","c","m","e"," ","C","o","r","p">>)

JobX ==
  ("job_id" :> "x") @@ ("title" :> "DevOps")
  @@ ("company_name" :> <<"A","c","m","e"," ","C","o","r","p">>)
  @@ ("share_link" :> "share-x") @@ ("apply_options" :> << >>)

\* What the search API has on offer for each location.
RawJobs(location) ==
  CASE location = "United Kingdom" -> {JobA, JobE, JobX}
    [] location = "Germany" -> {JobB, JobN, JobX}
    [] OTHER -> {JobA, JobB, JobX}

SeqsUpTo(S, n) == UNION {[1..k -> S] : k \in 0..n}

\* The pages the search API may answer with: at most `num` entries each.
Pages(location) == SeqsUpTo(RawJobs(location), RESULTS_PER_PAGE)

\* The pages of an API that has a single listing on offer.
PlainPages == SeqsUpTo({JobA}, 1)

\* serpapi_pagination.next_page_token: absent, or a cursor.
Tokens == {None, "tok"}

\* ------------------------------------------------------------ pure helpers

\* main.py:137  job.get("apply_options", [{}])[0]  raises IndexError on [].
Raises(job) == Len(Get(job, "apply_options", << EmptyDict >>)) = 0

\* main.py:129-139, the dict appended for one raw entry.
Normalize(job) ==
  ("job_id" :> Get(job, "job_id", None))
  @@ ("Title" :> Get(job, "title", None))
  @@ ("Company Name" :> Get(job, "company_name", None))
  @@ ("Location of Job" :> Get(job, "location", "N/A"))
  @@ ("Compensation" :> Get(Get(job, "detected_extensions", EmptyDict), "salary", "N/A"))
  @@ ("Source URL" :> Get(job, "share_link", "N/A"))
  @@ ("Apply Link" :>
        Get(Get(job, "apply_options", << EmptyDict >>)[1], "link",
            Get(job, "share_link", "N/A")))
  @@ ("Job Description" :> Get(job, "description", "No description provided"))

\* Index of the first entry of the page whose normalization raises, 0 if none.
FirstRaising(page) ==
  IF \E i \in DOMAIN page : Raises(page[i])
    THEN CHOOSE i \in DOMAIN page :
           Raises(page[i]) /\ \A j \in 1..(i - 1) : ~Raises(page[j])
    ELSE 0

competitor_keywords == [i \in DOMAIN COMPETITOR_NAMES |-> Upper(COMPETITOR_NAMES[i])]

\* main.py:45-51, the inner loop over the keywords for one job.
is_competitor(job) ==
  LET company_name == Upper(Get(job, "company_name", << >>))
  IN  \E i \in DOMAIN competitor_keywords : Contains(competitor_keywords[i], company_name)

filter_competitors(jobs_list) == SelectSeq(jobs_list, LAMBDA job : ~is_competitor(job))

\* main.py:62-64 on success, main.py:65-67 on failure.
get_existing_job_ids(sh, ok) ==
  IF ok THEN {Tail(sh)[i][1] : i \in DOMAIN Tail(sh)} ELSE {}

\* The dedup pass without the test that job_id is non-empty.
DedupGate_KeepsEmptyIds(jobs, ids) ==
  SelectSeq(jobs, LAMBDA job : Get(job, "job_id", None) \notin ids)

\* The dedup pass without the membership test.
DedupGate_IgnoresExisting(jobs, ids) ==
  SelectSeq(jobs, LAMBDA job : Truthy(Get(job, "job_id", None)))

\* main.py:165-168
DedupGate(jobs, ids) ==
  SelectSeq(jobs, LAMBDA job : Truthy(Get(job, "job_id", None)) /\ job["job_id"] \notin ids)

\* main.py:77-79
data_to_append(jobs) ==
  [i \in 1..Len(jobs) |-> [c \in 1..Len(columns) |-> Get(jobs[i], columns[c], "")]]

\* sheet.insert_rows(data, row=2): the rows go right below row 1.
insert_rows(sh, data) == << Head(sh) >> \o data \o Tail(sh)

\* ------------------------------------------------------------ state

VARIABLES
  sheet,                    \* worksheet of each group: row 1 is the header
  pc,                       \* where each invocation stands
  g, f,                     \* index of the worksheet / of the filter in its list
  next_page_token,
  aggregated_raw_job_data,
  filtered_jobs,
  existing_ids,
  new_jobs_to_add,
  rows_written,
  result,                   \* what the invocation returned
  \* history, read by the properties only
  sheet0,                   \* the worksheets before any invocation
  resp,                     \* while fetching: the last response, what followed, the
                            \* length of the accumulator (count) and how much of it
                            \* the current filter's pagination fetched (own)
  total,                    \* per-invocation sums of the per-group counts
  ops,                      \* <<run, group, call>> for every outside call made
  read_failed,              \* <<run, group>> whose column read failed
  wrote,                    \* job_ids each invocation inserted, per group
  stale                     \* <<run, group>> inserted into a sheet changed since its read

vars ==
  << sheet, pc, g, f, next_page_token, aggregated_raw_job_data, filtered_jobs,
     existing_ids, new_jobs_to_add, rows_written, result,
     sheet0, resp, total, ops, read_failed, wrote, stale >>

history == << sheet0, resp, total, ops, read_failed, wrote, stale >>

Set(fn, r, v) == [fn EXCEPT ![r] = v]

NoResult == [status |-> 0, step |-> "", token |-> None, error |-> "",
             fetched |-> 0, kept |-> 0, added |-> 0]

ErrorResult(step, token, error) ==
  [NoResult EXCEPT !.status = 500, !.step = step, !.token = token, !.error = error]

\* main.py:178: the counts are read from the loop's variables as they stand.
SuccessResult(fetched, kept, added) ==
  [NoResult EXCEPT !.status = 200, !.fetched = fetched, !.kept = kept, !.added = added]

NoResp == [reason |-> "none", entries |-> 0, token |-> None, count |-> 0, own |-> 0]

filter_list(r) == TARGET_LOCATIONS[g[r]].filter_list

\* The sheets a run may find: the header alone, or one recorded listing.
InitialSheets == { << columns >>, << columns >> \o data_to_append(<< Normalize(JobA) >>) }

\* The last worksheet is a new one.
Init ==
  /\ sheet \in [Groups -> InitialSheets]
  /\ Len(sheet[Len(TARGET_LOCATIONS)]) = 1
  /\ sheet0 = sheet
  /\ pc = [r \in Runs |-> "start"]
  /\ g = [r \in Runs |-> 1]
  /\ f = [r \in Runs |-> 1]
  /\ next_page_token = [r \in Runs |-> None]
  /\ aggregated_raw_job_data = [r \in Runs |-> << >>]
  /\ filtered_jobs = [r \in Runs |-> << >>]
  /\ existing_ids = [r \in Runs |-> {}]
  /\ new_jobs_to_add = [r \in Runs |-> << >>]
  /\ rows_written = [r \in Runs |-> 0]
  /\ result = [r \in Runs |-> NoResult]
  /\ resp = [r \in Runs |-> NoResp]
  /\ total = [r \in Runs |-> [fetched |-> 0, kept |-> 0, added |-> 0]]
  /\ ops = {}
  /\ read_failed = {}
  /\ wrote = [r \in Runs |-> [k \in Groups |-> << >>]]
  /\ stale = {}

\* ------------------------------------------------------------ actions

\* main.py:89-90, then the loop headers up to the first request (94-102).
InitClient(r) ==
  /\ pc[r] = "start"
  /\ pc' = Set(pc, r, "fetch")
  /\ g' = Set(g, r, 1)
  /\ f' = Set(f, r, 1)
  /\ aggregated_raw_job_data' = Set(aggregated_raw_job_data, r, << >>)
  /\ next_page_token' = Set(next_page_token, r, None)
  /\ UNCHANGED << sheet, filtered_jobs, existing_ids, new_jobs_to_add, rows_written,
                  result, history >>

\* main.py:91-92
InitClientFails(r) ==
  /\ pc[r] = "start"
  /\ pc' = Set(pc, r, "done")
  /\ result' = Set(result, r, ErrorResult("init", None, "Exception"))
  /\ UNCHANGED << sheet, g, f, next_page_token, aggregated_raw_job_data, filtered_jobs,
                  existing_ids, new_jobs_to_add, rows_written, history >>

\* main.py:123-157 for one response that raise_for_status() accepts, and, when
\* the while loop is left, the code up to the next outside call: the next
\* filter's loop header (96-102), or lines 159-162 after the last filter.
Respond(r, page, tok) ==
  LET bad == FirstRaising(page)
      taken == IF bad = 0 THEN page ELSE SubSeq(page, 1, bad - 1)
      agg2 == aggregated_raw_job_data[r] \o [i \in 1..Len(taken) |-> Normalize(taken[i])]
      own2 == (IF resp[r].reason = "more" THEN resp[r].own ELSE 0) + Len(taken)
      reason == IF bad # 0 THEN "raise"
                ELSE IF Len(page) = 0 THEN "empty"
                ELSE IF Len(agg2) >= MAX_JOBS_TO_FETCH THEN "cap"
                ELSE IF ~Truthy(tok) THEN "no_token"
                ELSE "more"
      tok2 == IF reason \in {"no_token", "more"} THEN tok ELSE next_page_token[r]
      left == reason \in {"empty", "cap", "no_token"}
      last == f[r] = Len(filter_list(r))
  IN  /\ aggregated_raw_job_data' = Set(aggregated_raw_job_data, r, agg2)
      /\ next_page_token' = Set(next_page_token, r, IF left /\ ~last THEN None ELSE tok2)
      /\ f' = Set(f, r, IF left /\ ~last THEN f[r] + 1 ELSE f[r])
      /\ filtered_jobs' =
           Set(filtered_jobs, r, IF left /\ last THEN filter_competitors(agg2) ELSE filtered_jobs[r])
      /\ pc' = Set(pc, r, IF reason = "raise" THEN "done"
                          ELSE IF left /\ last THEN "read" ELSE "fetch")
      /\ result' =
           Set(result, r, IF reason = "raise"
                            THEN ErrorResult("fetch", next_page_token[r], "IndexError")
                            ELSE result[r])
      /\ resp' = Set(resp, r, [reason |-> reason, entries |-> Len(page), token |-> tok,
                               count |-> Len(agg2), own |-> own2])
      /\ ops' = ops \cup {<< r, g[r], "fetch" >>}
      /\ UNCHANGED << sheet, g, existing_ids, new_jobs_to_add, rows_written,
                      sheet0, total, read_failed, wrote, stale >>

FetchPage(r) ==
  /\ pc[r] = "fetch"
  /\ \E page \in Pages(filter_list(r)[f[r]]), tok \in Tokens : Respond(r, page, tok)

FetchPlainPage(r) ==
  /\ pc[r] = "fetch"
  /\ \E page \in PlainPages, tok \in Tokens : Respond(r, page, tok)

\* A fetch failure that is recorded while the group is processed all the same.
FetchFails_GoesOn(r) ==
  /\ pc[r] = "fetch"
  /\ pc' = Set(pc, r, "read")
  /\ filtered_jobs' = Set(filtered_jobs, r, filter_competitors(aggregated_raw_job_data[r]))
  /\ result' = Set(result, r, ErrorResult("fetch", next_page_token[r], "HTTPError"))
  /\ ops' = ops \cup {<< r, g[r], "fetch" >>}
  /\ UNCHANGED << sheet, g, f, next_page_token, aggregated_raw_job_data,
                  existing_ids, new_jobs_to_add, rows_written,
                  sheet0, resp, total, read_failed, wrote, stale >>

\* main.py:123-124 raising (transport error or non-success status), 156-157.
FetchFails(r) ==
  /\ pc[r] = "fetch"
  /\ pc' = Set(pc, r, "done")
  /\ result' = Set(result, r, ErrorResult("fetch", next_page_token[r], "HTTPError"))
  /\ ops' = ops \cup {<< r, g[r], "fetch" >>}
  /\ UNCHANGED << sheet, g, f, next_page_token, aggregated_raw_job_data, filtered_jobs,
                  existing_ids, new_jobs_to_add, rows_written,
                  sheet0, resp, total, read_failed, wrote, stale >>

\* End of one pass of the outer loop with `written` rows inserted: the next
\* worksheet's loop headers (94-102), or main.py:178 after the last one.
Advance(r, written) ==
  LET more == g[r] < Len(TARGET_LOCATIONS)
  IN  /\ rows_written' = Set(rows_written, r, written)
      /\ total' = Set(total, r,
           [fetched |-> total[r].fetched + Len(aggregated_raw_job_data[r]),
            kept |-> total[r].kept + Len(filtered_jobs[r]),
            added |-> total[r].added + written])
      /\ pc' = Set(pc, r, IF more THEN "fetch" ELSE "done")
      /\ g' = Set(g, r, IF more THEN g[r] + 1 ELSE g[r])
      /\ f' = Set(f, r, IF more THEN 1 ELSE f[r])
      /\ aggregated_raw_job_data' =
           Set(aggregated_raw_job_data, r, IF more THEN << >> ELSE aggregated_raw_job_data[r])
      /\ next_page_token' = Set(next_page_token, r, IF more THEN None ELSE next_page_token[r])
      /\ result' =
           Set(result, r, IF more THEN result[r]
                          ELSE SuccessResult(Len(aggregated_raw_job_data[r]),
                                             Len(filtered_jobs[r]), written))

\* main.py:164-172: the column read, the dedup pass, and the `if` that skips
\* the write when nothing is new.
ReadStep(r, ok) ==
  LET ids == get_existing_job_ids(sheet[g[r]], ok)
      new == DedupGate(filtered_jobs[r], ids)
  IN  /\ pc[r] = "read"
      /\ existing_ids' = Set(existing_ids, r, ids)
      /\ new_jobs_to_add' = Set(new_jobs_to_add, r, new)
      /\ ops' = ops \cup {<< r, g[r], "read" >>}
      /\ read_failed' = IF ok THEN read_failed ELSE read_failed \cup {<< r, g[r] >>}
      /\ IF Len(new) = 0
           THEN Advance(r, 0)
           ELSE /\ pc' = Set(pc, r, "write")
                /\ rows_written' = Set(rows_written, r, 0)
                /\ UNCHANGED << g, f, aggregated_raw_job_data, next_page_token, result, total >>
      /\ resp' = Set(resp, r, NoResp)
      /\ UNCHANGED << sheet, filtered_jobs, sheet0, wrote, stale >>

ReadExisting(r) == ReadStep(r, TRUE)

\* A column read whose failure ends the run.
ReadExistingFails_Fatal(r) ==
  /\ pc[r] = "read"
  /\ pc' = Set(pc, r, "done")
  /\ result' = Set(result, r, ErrorResult("read", None, "Exception"))
  /\ ops' = ops \cup {<< r, g[r], "read" >>}
  /\ read_failed' = read_failed \cup {<< r, g[r] >>}
  /\ UNCHANGED << sheet, g, f, next_page_token, aggregated_raw_job_data, filtered_jobs,
                  existing_ids, new_jobs_to_add, rows_written,
                  sheet0, resp, total, wrote, stale >>

ReadExistingFails(r) == ReadStep(r, FALSE)

\* main.py:174 with write_jobs_to_sheet (72-81) returning.
WriteRows(r) ==
  /\ pc[r] = "write"
  /\ sheet' = [sheet EXCEPT ![g[r]] = insert_rows(@, data_to_append(new_jobs_to_add[r]))]
  /\ ops' = ops \cup {<< r, g[r], "write" >>}
  /\ wrote' = [wrote EXCEPT ![r][g[r]] =
                 [i \in 1..Len(new_jobs_to_add[r]) |-> new_jobs_to_add[r][i]["job_id"]]]
  /\ stale' = IF get_existing_job_ids(sheet[g[r]], TRUE) = existing_ids[r]
                THEN stale ELSE stale \cup {<< r, g[r] >>}
  /\ Advance(r, Len(new_jobs_to_add[r]))
  /\ UNCHANGED << filtered_jobs, existing_ids, new_jobs_to_add, sheet0, resp, read_failed >>

\* main.py:82-84 raising, 175-176.
WriteFails(r) ==
  /\ pc[r] = "write"
  /\ pc' = Set(pc, r, "done")
  /\ result' = Set(result, r, ErrorResult("write", None, "Exception"))
  /\ ops' = ops \cup {<< r, g[r], "write" >>}
  /\ UNCHANGED << sheet, g, f, next_page_token, aggregated_raw_job_data, filtered_jobs,
                  existing_ids, new_jobs_to_add, rows_written,
                  sheet0, resp, total, read_failed, wrote, stale >>

Step(r) ==
  \/ InitClient(r)
  \/ InitClientFails(r)
  \/ FetchPage(r)
  \/ FetchFails(r)
  \/ ReadExisting(r)
  \/ ReadExistingFails(r)
  \/ WriteRows(r)
  \/ WriteFails(r)

\* One invocation; the second one never starts.
Next == Step(1)

Spec == Init /\ [][Next]_vars

\* Two invocations triggered close together, against an API and a store that
\* do not fail.
RaceStep(r) ==
  \/ InitClient(r)
  \/ FetchPlainPage(r)
  \/ ReadExisting(r)
  \/ WriteRows(r)

NextRace == \E r \in Runs : RaceStep(r)

SpecRace == Init /\ [][NextRace]_vars

\* ------------------------------------------------------------ properties

\* The job_id column of a worksheet below its header.
Ids(sh) == [i \in 1..(Len(sh) - 1) |-> sh[i + 1][1]]

Occurrences(seq, x) == Cardinality({i \in DOMAIN seq : seq[i] = x})

NoRepeat(seq) == \A i, j \in DOMAIN seq : seq[i] = seq[j] => i = j

BlocklistMatch(name) ==
  \E i \in DOMAIN COMPETITOR_NAMES : Contains(Upper(COMPETITOR_NAMES[i]), Upper(name))

RECURSIVE NonCompetitors(_)
NonCompetitors(jobs) ==
  IF Len(jobs) = 0 THEN << >>
  ELSE IF BlocklistMatch(Head(jobs)["Company Name"]) THEN NonCompetitors(Tail(jobs))
  ELSE << Head(jobs) >> \o NonCompetitors(Tail(jobs))

HasId(job) == job["job_id"] # None /\ job["job_id"] # ""

\* The records of `jobs`, in order, with a non-empty job_id outside `ids`.
RECURSIVE Passing(_, _)
Passing(jobs, ids) ==
  IF Len(jobs) = 0 THEN << >>
  ELSE IF HasId(Head(jobs)) /\ Head(jobs)["job_id"] \notin ids
         THEN << Head(jobs) >> \o Passing(Tail(jobs), ids)
         ELSE Passing(Tail(jobs), ids)

RowOf(job) ==
  << job["job_id"], job["Title"], job["Company Name"], job["Source URL"],
     job["Location of Job"], job["Compensation"], job["Job Description"],
     job["Apply Link"] >>

RowsOf(jobs) == [i \in 1..Len(jobs) |-> RowOf(jobs[i])]

\* The group whose pass run r completed last, its filtered_jobs and
\* existing_ids still being those of that pass; 0 if there is none.
Completed(r) ==
  IF pc[r] = "done" /\ result[r].status = 200 THEN g[r]
  ELSE IF pc[r] = "fetch" \/ (pc[r] = "done" /\ result[r].step = "fetch") THEN g[r] - 1
  ELSE 0

\* C1: every fetched record whose company name contains a blocklist keyword,
\* compared case-insensitively, is dropped by the competitor filter, the others
\* are kept in input order, and no such record is ever in a worksheet.
C1_CompetitorsAreDropped ==
  /\ \A r \in Runs :
       pc[r] \in {"read", "write"} =>
         filtered_jobs[r] = NonCompetitors(aggregated_raw_job_data[r])
  /\ \A k \in Groups : \A i \in 2..Len(sheet[k]) : ~BlocklistMatch(sheet[k][i][3])

\* C2: what is handed to the writer is exactly the filtered records, in order,
\* whose job_id is non-empty and outside the ExistingIdSet read in this pass;
\* once the pass is completed exactly their rows have been added to the group's
\* worksheet, in that order; and no row ever has an empty or missing job_id.
C2_WrittenIffNewAndHasId ==
  /\ \A r \in Runs :
       pc[r] = "write" =>
         new_jobs_to_add[r] = Passing(filtered_jobs[r], existing_ids[r])
  /\ \A r \in Runs :
       Completed(r) # 0 =>
         sheet[Completed(r)] =
           << columns >> \o RowsOf(Passing(filtered_jobs[r], existing_ids[r]))
                        \o Tail(sheet0[Completed(r)])
  /\ \A k \in Groups : \A i \in 2..Len(sheet[k]) : sheet[k][i][1] \notin {None, ""}

\* C2 witness: a completed pass whose filtered records held an empty job_id, a
\* job_id already in the sheet and a new one, of which only the last was added.
C2_Witness ==
  \E r \in Runs :
    /\ Completed(r) # 0
    /\ \E i \in DOMAIN filtered_jobs[r] : filtered_jobs[r][i]["job_id"] = ""
    /\ \E i \in DOMAIN filtered_jobs[r] : filtered_jobs[r][i]["job_id"] \in existing_ids[r]
    /\ Len(new_jobs_to_add[r]) = 1
    /\ Len(sheet[Completed(r)]) = Len(sheet0[Completed(r)]) + 1

\* C3: after a single run whose existing-ID read succeeded, a worksheet that
\* had no job_id twice before the run has no job_id twice.
C3_NoDuplicateAfterRun ==
  \A k \in Groups :
    (NoRepeat(Ids(sheet0[k])) /\ << 1, k >> \notin read_failed) => NoRepeat(Ids(sheet[k]))

\* C4: a filter's pagination stops on the cap only when that filter's own
\* pagination has accumulated at least MAX_JOBS_TO_FETCH records, and the count
\* compared with the cap stays below the cap plus one page.
C4_CapIsPerFilter ==
  \A r \in Runs :
    /\ resp[r].reason = "cap" => resp[r].own >= MAX_JOBS_TO_FETCH
    /\ resp[r].reason \in {"cap", "no_token", "more"} =>
         resp[r].count < MAX_JOBS_TO_FETCH + RESULTS_PER_PAGE

\* C5: no run is aborted because normalizing a raw entry raised.
C5_NormalizeNeverAborts ==
  \A r \in Runs : ~(result[r].status = 500 /\ result[r].error = "IndexError")

\* C6: the counts of the success summary are the sums over all groups.
C6_SummaryCountsAreSums ==
  \A r \in Runs :
    (pc[r] = "done" /\ result[r].status = 200) =>
      /\ result[r].fetched = total[r].fetched
      /\ result[r].kept = total[r].kept
      /\ result[r].added = total[r].added

\* C7: once the run has returned the fetch-step error while on group k, it has
\* ended; the groups before k hold the rows it inserted on top of what they
\* had; group k was neither read nor written and holds what it held; and for
\* the groups after k no request, read or write was made.
C7_FetchFailureAborts ==
  \A r \in Runs :
    (result[r].status = 500 /\ result[r].step = "fetch") =>
      /\ pc[r] = "done"
      /\ ~ENABLED Step(r)
      /\ \A k \in Groups :
           /\ k < g[r] => Ids(sheet[k]) = wrote[r][k] \o Ids(sheet0[k])
           /\ k >= g[r] => /\ sheet[k] = sheet0[k]
                           /\ << r, k, "read" >> \notin ops
                           /\ << r, k, "write" >> \notin ops
           /\ k > g[r] => << r, k, "fetch" >> \notin ops

\* C7 witness: the request fails on the second group after pages of it were
\* fetched, with rows of the first group already inserted.
C7_Witness ==
  \E r \in Runs :
    /\ result[r].status = 500 /\ result[r].step = "fetch"
    /\ result[r].error = "HTTPError"
    /\ g[r] = 2
    /\ Len(aggregated_raw_job_data[r]) > 0
    /\ Len(wrote[r][1]) > 0
    /\ Len(sheet[1]) > Len(sheet0[1])

\* C8: a failed column read leaves the ExistingIdSet empty and the run going:
\* every filtered record with a non-empty job_id is handed to the writer and,
\* once the pass is completed, is in the worksheet; the run never returns an
\* error for the read.
C8_ReadFailureIsNotFatal ==
  \A r \in Runs :
    /\ result[r].step # "read"
    /\ (pc[r] = "write" /\ << r, g[r] >> \in read_failed) =>
         /\ existing_ids[r] = {}
         /\ new_jobs_to_add[r] = Passing(filtered_jobs[r], {})
    /\ (Completed(r) # 0 /\ << r, Completed(r) >> \in read_failed) =>
         sheet[Completed(r)] =
           << columns >> \o RowsOf(Passing(filtered_jobs[r], {})) \o Tail(sheet0[Completed(r)])
    /\ \A k \in Groups :
         (<< r, k >> \in read_failed /\ pc[r] = "done") =>
           \/ result[r].status = 200
           \/ result[r].step = "fetch" /\ g[r] > k
           \/ result[r].step = "write" /\ g[r] >= k

\* C8 witness: the run ended with the success result although the read of the
\* first group failed, it went on to the second group, and the listing the
\* first sheet already had was inserted again.
C8_Witness ==
  \E r \in Runs :
    /\ pc[r] = "done" /\ result[r].status = 200
    /\ << r, 1 >> \in read_failed
    /\ << r, 2, "fetch" >> \in ops
    /\ Occurrences(Ids(sheet[1]), "a") = 2

\* C9: after a successful response a further request of the same filter
\* follows iff the response had an entry, the accumulated count is below the
\* cap and the response carried a next-page token.
C9_ContinuesIffMoreToFetch ==
  \A r \in Runs :
    resp[r].reason # "none" =>
      ((resp[r].reason = "more" /\ pc[r] = "fetch")
         <=> (resp[r].entries >= 1 /\ resp[r].count < MAX_JOBS_TO_FETCH
              /\ resp[r].token # None))

\* While a filter's pagination goes on, every response adds to what that
\* pagination has fetched and leaves the accumulator below the cap, so a filter
\* makes at most MAX_JOBS_TO_FETCH requests whatever the API answers.
PaginationProgresses ==
  [][\A r \in Runs :
       (resp[r].reason = "more" /\ resp'[r].reason = "more" /\ resp'[r] # resp[r]) =>
         /\ resp'[r].own > resp[r].own
         /\ resp'[r].own <= resp'[r].count
         /\ resp'[r].count < MAX_JOBS_TO_FETCH]_vars

\* C10: with two overlapping runs whose reads all succeed, a job_id that each
\* run inserted at most once and that the sheet did not hold twice before is
\* twice in the sheet only when a run that inserted it did so into a sheet
\* changed since that run read the ExistingIdSet.
C10_DuplicateOnlyByStaleRead ==
  \A k \in Groups : \A id \in {"a", "b"} :
    ( /\ Occurrences(Ids(sheet[k]), id) >= 2
      /\ NoRepeat(Ids(sheet0[k]))
      /\ read_failed = {}
      /\ \A r \in Runs : Occurrences(wrote[r][k], id) <= 1 )
    => \E r \in Runs : << r, k >> \in stale /\ Occurrences(wrote[r][k], id) = 1

\* C10 witness: both runs read the group's column, each inserted the job_id
\* once, and the sheet, which did not hold it before, holds it twice.
C10_Witness ==
  \E k \in Groups :
    /\ Occurrences(Ids(sheet0[k]), "a") = 0
    /\ Occurrences(Ids(sheet[k]), "a") = 2
    /\ read_failed = {}
    /\ \A r \in Runs : << r, k, "read" >> \in ops /\ wrote[r][k] = << "a" >>
    /\ \A r \in Runs :
         /\ pc[r] = "done" /\ g[r] = k
         /\ Occurrences([i \in DOMAIN aggregated_raw_job_data[r] |->
                          aggregated_raw_job_data[r][i]["job_id"]], "a") = 1

====
